---- MODULE Spec2Model ----
(***************************************************************************)
(* A model of src/main.js (lines 1-347, the version with the audit log):   *)
(* a content-addressable store on a filesystem, the read-transform-write   *)
(* edit pipeline, the llm ingestion command and the audit log, run as      *)
(* independent processes (one per command-line invocation) that share one  *)
(* storage root.                                                           *)
(*                                                                         *)
(* Strings are sequences of one-character strings, buffers are sequences   *)
(* of byte values: the two are different types and the utf8 conversions    *)
(* between them are modelled by what they do.                              *)
(***************************************************************************)
EXTENDS Integers, Sequences, FiniteSets, TLC

\* ------------------------------------------------------------------ bounds
\* Number of process slots (concurrent invocations of the program).
NumProcs == 2
\* Number of invocations started in one behaviour.
MaxInvocations == 2
\* Longest buffer (in bytes) the model stores; longer results are not explored.
MaxLen == 4
MaxChunks == 3

\* A JavaScript number: an integer or NaN.
Num(n) == [nan |-> FALSE, val |-> n]
NaN == [nan |-> TRUE, val |-> 0]
\* An optional value (null or a value) is a sequence of length 0 or 1.
None == <<>>
Some(x) == <<x>>

\* ------------------------------------------------- strings and buffers
Min(a, b) == IF a < b THEN a ELSE b

\* String.prototype.slice(from) and slice(from, to), 0-indexed, clamped.
SliceFrom(s, from) == SubSeq(s, Min(from, Len(s)) + 1, Len(s))
Slice(s, from, to) == SubSeq(s, Min(from, Len(s)) + 1, Min(to, Len(s)))

StartsWith(s, pre) == Len(s) >= Len(pre) /\ SubSeq(s, 1, Len(pre)) = pre
EndsWith(s, suf) == Len(s) >= Len(suf) /\ SubSeq(s, Len(s) - Len(suf) + 1, Len(s)) = suf

\* 1-based position of the first occurrence of pat in s, 0 when there is none
\* (the empty pattern occurs at position 1).
IndexOf(s, pat) ==
    LET hits == {i \in 1..(Len(s) - Len(pat) + 1) : SubSeq(s, i, i + Len(pat) - 1) = pat}
    IN  IF hits = {} THEN 0 ELSE CHOOSE i \in hits : \A j \in hits : i <= j

\* String.prototype.split(sep): the empty separator splits into code units.
RECURSIVE SplitStr(_, _)
SplitStr(s, sep) ==
    IF sep = <<>> THEN [i \in 1..Len(s) |-> <<s[i]>>]
    ELSE LET i == IndexOf(s, sep)
         IN  IF i = 0 THEN <<s>>
             ELSE <<SubSeq(s, 1, i - 1)>> \o SplitStr(SubSeq(s, i + Len(sep), Len(s)), sep)

\* Array.prototype.join(sep).
RECURSIVE JoinStr(_, _)
JoinStr(parts, sep) ==
    IF parts = <<>> THEN <<>>
    ELSE IF Len(parts) = 1 THEN parts[1]
    ELSE parts[1] \o sep \o JoinStr(Tail(parts), sep)

\* The replacement-string expansion String.prototype.replace applies to its
\* second argument even for a string pattern: $$, $&, $ with a backquote (the
\* text before the match) and $ with a quote (the text after it).  BackQuote
\* and Quote name those two characters.
BackQuote == "BACKQUOTE"
Quote == "QUOTE"
RECURSIVE Expand(_, _, _, _)
Expand(new, matched, before, after) ==
    IF new = <<>> THEN <<>>
    ELSE IF new[1] = "$" /\ Len(new) >= 2 /\ new[2] \in {"$", "&", BackQuote, Quote}
         THEN (CASE new[2] = "$" -> <<"$">>
                 [] new[2] = "&" -> matched
                 [] new[2] = BackQuote -> before
                 [] OTHER        -> after)
              \o Expand(SubSeq(new, 3, Len(new)), matched, before, after)
         ELSE <<new[1]>> \o Expand(Tail(new), matched, before, after)

\* text.replace(oldStr, newStr) with a string pattern: first occurrence only.
ReplaceFirst(text, oldStr, newStr) ==
    LET i == IndexOf(text, oldStr)
    IN  IF i = 0 THEN text
        ELSE LET before == SubSeq(text, 1, i - 1)
                 after  == SubSeq(text, i + Len(oldStr), Len(text))
             IN  before \o Expand(newStr, oldStr, before, after) \o after

\* text.split(oldStr).join(newStr)
ReplaceAllStr(text, oldStr, newStr) == JoinStr(SplitStr(text, oldStr), newStr)

\* ------------------------------------------------------------- utf8
\* The characters and bytes the inputs of the model are made of.  U+FFFD is the
\* replacement character a decoder emits for a malformed byte.
RChar == "U+FFFD"
CharCode ==
    [c \in {"\n", "$", "&", "a", "b"} |->
        CASE c = "\n" -> 10 [] c = "$" -> 36 [] c = "&" -> 38 [] c = "a" -> 97 [] OTHER -> 98]
AsciiChar(b) == CHOOSE c \in DOMAIN CharCode : CharCode[c] = b
IsAscii(b) == \E c \in DOMAIN CharCode : CharCode[c] = b
RBytes == <<239, 191, 189>>

\* Buffer.prototype.toString('utf8'): ASCII bytes decode to themselves, the
\* three bytes EF BF BD to U+FFFD, and a malformed byte to U+FFFD as well.
RECURSIVE Utf8Decode(_)
Utf8Decode(bytes) ==
    IF bytes = <<>> THEN <<>>
    ELSE IF IsAscii(bytes[1]) THEN <<AsciiChar(bytes[1])>> \o Utf8Decode(Tail(bytes))
    ELSE IF StartsWith(bytes, RBytes) THEN <<RChar>> \o Utf8Decode(SubSeq(bytes, 4, Len(bytes)))
    ELSE <<RChar>> \o Utf8Decode(Tail(bytes))

\* Buffer.from(text, 'utf8')
RECURSIVE Utf8Encode(_)
Utf8Encode(text) ==
    IF text = <<>> THEN <<>>
    ELSE (IF text[1] = RChar THEN RBytes ELSE <<CharCode[text[1]]>>) \o Utf8Encode(Tail(text))

\* ------------------------------------------------------------- digest
\* computeHash: sha256 rendered as lower-case hex.  The model keeps what the
\* program relies on: a fixed-length hex string, a pure function of the
\* bytes, with no two buffers of the model sharing a digest (an injective
\* numbering of the buffers, spread over the hex digits).
ByteAlphabet == <<10, 36, 38, 97, 98, 189, 191, 239, 255>>
HashLen == 6
HexDigits == <<"0", "1", "2", "3", "4", "5", "6", "7", "8", "9", "a", "b", "c", "d", "e", "f">>

ByteIndex(b) == CHOOSE i \in 1..Len(ByteAlphabet) : ByteAlphabet[i] = b

RECURSIVE ByteNumber(_)
ByteNumber(bytes) ==
    IF bytes = <<>> THEN 0
    ELSE ByteIndex(bytes[Len(bytes)])
         + (Len(ByteAlphabet) + 1) * ByteNumber(SubSeq(bytes, 1, Len(bytes) - 1))

RECURSIVE Hex(_, _)
Hex(n, width) ==
    IF width = 0 THEN <<>> ELSE Hex(n \div 16, width - 1) \o <<HexDigits[(n % 16) + 1]>>

HashPrime == 16777213
computeHash(data) == Hex((227 + 4099 * ByteNumber(data)) % HashPrime, HashLen)

\* ------------------------------------------------------------- paths
\* A path is the sequence of its components below casDir; path.join drops
\* empty components.
getFilePath(hash) ==
    LET subdir   == Slice(hash, 0, 2)
        filename == SliceFrom(hash, 2)
    IN  (IF subdir = <<>> THEN <<>> ELSE <<subdir>>)
        \o (IF filename = <<>> THEN <<>> ELSE <<filename>>)

\* path.dirname
dirname(path) == IF path = <<>> THEN <<>> ELSE SubSeq(path, 1, Len(path) - 1)

\* ------------------------------------------------- numbers from argv
Digits == <<"0", "1", "2", "3", "4", "5", "6", "7", "8", "9">>
IsDigit(c) == \E i \in 1..Len(Digits) : Digits[i] = c
DigitVal(c) == (CHOOSE i \in 1..Len(Digits) : Digits[i] = c) - 1

RECURSIVE DigitPrefixValue(_, _)
DigitPrefixValue(s, acc) ==
    IF s = <<>> \/ ~IsDigit(s[1]) THEN acc
    ELSE DigitPrefixValue(Tail(s), 10 * acc + DigitVal(s[1]))

\* parseInt(s, 10): optional sign, then the longest prefix of digits; NaN when
\* there is no digit.
parseInt(s) ==
    LET neg  == s /= <<>> /\ s[1] = "-"
        body == IF s /= <<>> /\ s[1] \in {"-", "+"} THEN Tail(s) ELSE s
    IN  IF body = <<>> \/ ~IsDigit(body[1]) THEN NaN
        ELSE IF neg THEN Num(0 - DigitPrefixValue(body, 0)) ELSE Num(DigitPrefixValue(body, 0))

\* lineNum - 1, and the comparisons of the range checks against an integer:
\* every comparison with NaN is false.
MinusOne(n) == IF n.nan THEN NaN ELSE Num(n.val - 1)
Lt(a, k) == ~a.nan /\ a.val < k
Gt(a, k) == ~a.nan /\ a.val > k
Ge(a, k) == ~a.nan /\ a.val >= k

\* Array.prototype.splice(start, deleteCount, ...items) for the starts the
\* callers let through (none is negative); a NaN start is 0.
SpliceStart(idx) == IF idx.nan THEN 0 ELSE idx.val
\* (mutant) splice puts the item in front of the array.
SpliceInsert_AtFront(lines, idx, item) == <<item>> \o lines
SpliceInsert(lines, idx, item) ==
    LET k == Min(SpliceStart(idx), Len(lines))
    IN  SubSeq(lines, 1, k) \o <<item>> \o SubSeq(lines, k + 1, Len(lines))
SpliceDelete(lines, idx) ==
    LET k == Min(SpliceStart(idx), Len(lines))
    IN  SubSeq(lines, 1, k) \o SubSeq(lines, k + 2, Len(lines))
\* lines[idx] = item: an index that is no array index (NaN) sets a property
\* and leaves the elements alone.
SetIndex(lines, idx, item) ==
    IF idx.nan \/ idx.val < 0 THEN lines
    ELSE IF idx.val < Len(lines) THEN [lines EXCEPT ![idx.val + 1] = item]
    ELSE lines \o <<item>>

\* ---------------------------------------------------------- transforms
\* A transform returns the new text or throws.
Ok(text) == [ok |-> TRUE, text |-> text, err |-> ""]
Thrown(msg) == [ok |-> FALSE, text |-> <<>>, err |-> msg]
OutOfRange == "line out of range"
NewLine == <<"\n">>

lineInsert(text, lineNum, newLine) ==
    LET lines == SplitStr(text, NewLine)
        idx   == MinusOne(lineNum)
    IN  IF Lt(idx, 0) \/ Gt(idx, Len(lines)) THEN Thrown(OutOfRange)
        ELSE Ok(JoinStr(SpliceInsert(lines, idx, newLine), NewLine))

\* (mutant) the range check of lineDelete lets the index past the last line through.
lineDelete_PastEnd(text, lineNum) ==
    LET lines == SplitStr(text, NewLine)
        idx   == MinusOne(lineNum)
    IN  IF Lt(idx, 0) \/ Gt(idx, Len(lines)) THEN Thrown(OutOfRange)
        ELSE Ok(JoinStr(SpliceDelete(lines, idx), NewLine))

lineDelete(text, lineNum) ==
    LET lines == SplitStr(text, NewLine)
        idx   == MinusOne(lineNum)
    IN  IF Lt(idx, 0) \/ Ge(idx, Len(lines)) THEN Thrown(OutOfRange)
        ELSE Ok(JoinStr(SpliceDelete(lines, idx), NewLine))

lineReplace(text, lineNum, newLine) ==
    LET lines == SplitStr(text, NewLine)
        idx   == MinusOne(lineNum)
    IN  IF Lt(idx, 0) \/ Ge(idx, Len(lines)) THEN Thrown(OutOfRange)
        ELSE Ok(JoinStr(SetIndex(lines, idx, newLine), NewLine))

\* The transformFn each edit command hands to edit(), applied to the text.
EditCommands ==
    {"replace", "replace-all", "line-insert", "line-delete", "line-replace", "append", "prepend"}
transformFn(command, rest, text) ==
    CASE command = "replace"      -> Ok(ReplaceFirst(text, rest[2], rest[3]))
      [] command = "replace-all"  -> Ok(ReplaceAllStr(text, rest[2], rest[3]))
      [] command = "line-insert"  -> lineInsert(text, parseInt(rest[2]), rest[3])
      [] command = "line-delete"  -> lineDelete(text, parseInt(rest[2]))
      [] command = "line-replace" -> lineReplace(text, parseInt(rest[2]), rest[3])
      [] command = "append"       -> Ok(text \o rest[2])
      [] OTHER                    -> Ok(rest[2] \o text)

\* The number of arguments runCommand requires after the command.
Commands == EditCommands \cup {"write", "read", "llm"}
Arity(command) ==
    CASE command \in {"write", "read"} -> 1
      [] command \in {"line-delete", "append", "prepend"} -> 2
      [] OTHER -> 3

\* ------------------------------------------------- the llm stream decoder
\* The event-stream lines the llm command decodes.  A frame's JSON payload
\* is written {content}: JSON.parse succeeds on a payload that opens and
\* closes with a brace and has none inside, and its choices[0].delta.content
\* is the text between them with the escape \n decoded.
DataPrefix == <<"d", "a", "t", "a", ":", " ">>
DoneMark == <<"[", "D", "O", "N", "E", "]">>

RECURSIVE Unescape(_)
Unescape(s) ==
    IF s = <<>> THEN <<>>
    ELSE IF Len(s) >= 2 /\ s[1] = "\\" /\ s[2] = "n" THEN <<"\n">> \o Unescape(SubSeq(s, 3, Len(s)))
    ELSE <<s[1]>> \o Unescape(Tail(s))

JsonOk(data) ==
    /\ Len(data) >= 2
    /\ data[1] = "{"
    /\ data[Len(data)] = "}"
    /\ \A i \in 2..(Len(data) - 1) : data[i] \notin {"{", "}"}
JsonContent(data) == Unescape(SubSeq(data, 2, Len(data) - 1))

\* What one complete line adds to fullOutput (and to standard output).
LineContent(line) ==
    IF ~StartsWith(line, DataPrefix) THEN <<>>
    ELSE LET data == SliceFrom(line, 6)
         IN  IF data = DoneMark THEN <<>>
             ELSE IF JsonOk(data) THEN JsonContent(data)
             ELSE <<>>

RECURSIVE LinesContent(_)
LinesContent(lines) ==
    IF lines = <<>> THEN <<>> ELSE LineContent(lines[1]) \o LinesContent(Tail(lines))

\* ------------------------------------------------------------- state
VARIABLES
    proc,      \* proc[p]: the invocation running in process slot p
    dirs,      \* the directories below (and including) casDir
    files,     \* path |-> bytes: the regular files of the store
    audit,     \* the rows of audit_log, in insertion order
    started,   \* number of invocations started so far
    putDone    \* history: [data, hash] of every writeCAS call that has returned

vars == <<proc, dirs, files, audit, started, putDone>>

Proc == 1..NumProcs

\* The environment of llm: the credential, the response status and the
\* values reader.read() delivers; frames and wire are history, the content
\* fragments the upstream sent and the text of the whole response body.
NoNet == [key |-> FALSE, ok |-> FALSE, chunks |-> <<>>, frames |-> <<>>, wire |-> <<>>]

\* A process slot before its first invocation.  The fields after stderr are
\* history: the outcome of runCommand, the number of rows this invocation
\* appended, and the store as it was when runCommand was entered.
IdleProc ==
    [pc |-> "idle", argc |-> 0, command |-> "", rest |-> <<>>, stdin |-> <<>>, net |-> NoNet,
     data |-> <<>>, hash |-> <<>>, fullOutput |-> <<>>, buffer |-> <<>>,
     outputName |-> None, err |-> "", exitCode |-> -1,
     out |-> None, tee |-> <<>>, printed |-> None, printedTo |-> "", stderr |-> "",
     inv |-> 0, opResult |-> "none", opErr |-> "", nrows |-> 0, wrote |-> FALSE,
     snapDirs |-> {}, snapFiles |-> <<>>]

Init ==
    /\ proc = [p \in Proc |-> IdleProc]
    /\ dirs = {}
    /\ files = <<>>
    /\ audit = <<>>
    /\ started = 0
    /\ putDone = {}

\* (mutant) the probe looks for a directory only.
existsSync_DirsOnly(path) == path \in dirs

\* fs.existsSync
existsSync(path) == path \in dirs \/ path \in DOMAIN files

\* The directories fs.mkdirSync(dir, {recursive: true}) leaves in place.
MkdirP(dir) == {SubSeq(dir, 1, k) : k \in 0..Len(dir)}

\* ------------------------------------------------------------- inputs
WriteInputs == {<<>>, <<97>>, <<97, 10, 98>>, <<255>>}
OldTexts == {<<"a">>}
NewTexts == {<<"b">>}
LineNums == {<<"1">>, <<"3">>}
\* Network reads of a stream whose content is "a", and of one whose content
\* is "b" and a newline.
StreamA ==
    << <<"d", "a", "t", "a", ":", " ", "{", "a", "}", "\n">>,
       <<"d", "a", "t", "a", ":", " ", "[", "D", "O", "N", "E", "]", "\n">> >>
StreamB == << <<"d", "a", "t", "a", ":", " ", "{", "b", "\\", "n", "}", "\n">> >>
Nets ==
    {NoNet, [NoNet EXCEPT !.key = TRUE],
     [key |-> TRUE, ok |-> TRUE, chunks |-> StreamA, frames |-> << <<"a">> >>,
      wire |-> StreamA[1] \o StreamA[2]],
     [key |-> TRUE, ok |-> TRUE, chunks |-> StreamB, frames |-> << <<"b", "\n">> >>,
      wire |-> StreamB[1]]}

\* The names a caller passes: the digests the store holds, one more, and a
\* name of two characters.
StoredNames == {path[1] \o path[2] : path \in {q \in DOMAIN files : Len(q) = 2}}
ShortName == <<"0", "0">>
Names == StoredNames \cup {computeHash(<<98>>), ShortName}

Argv(command, rest) ==
    [argc |-> 2 + Len(rest), command |-> command, rest |-> rest, stdin |-> <<>>, net |-> NoNet]

Invocations ==
    {[argc |-> n, command |-> "", rest |-> <<>>, stdin |-> <<>>, net |-> NoNet] : n \in {0, 1}}
    \cup {[Argv("write", << <<"-">> >>) EXCEPT !.stdin = b] : b \in WriteInputs}
    \cup {Argv("read", <<n>>) : n \in Names}
    \cup {Argv("read", <<>>), Argv("frob", <<>>)}
    \cup {Argv(c, <<n, o, t>>) : c \in {"replace", "replace-all"}, n \in Names, o \in OldTexts, t \in NewTexts}
    \cup {Argv(c, <<n, k, t>>) : c \in {"line-insert", "line-replace"}, n \in Names, k \in LineNums, t \in NewTexts}
    \cup {Argv("line-delete", <<n, k>>) : n \in Names, k \in LineNums}
    \cup {Argv(c, <<n, t>>) : c \in {"append", "prepend"}, n \in Names, t \in NewTexts}
    \cup {[Argv("llm", << <<"a">>, <<"a">>, <<"b">> >>) EXCEPT !.net = e] : e \in Nets}

\* Invocations for the edit commands: texts of one, two and three segments,
\* a buffer that is not valid UTF-8, and for each stored name every edit
\* command with arguments around the limits of its line range, a line number
\* that is no number, and replacement texts with and without a dollar pattern.
EditSources == {<<>>, <<97>>, <<97, 10, 98>>, <<97, 97, 97>>, <<255>>}
EditOldTexts == {<<"a">>, <<"b">>}
EditNewTexts == {<<"b">>, <<"$", "&">>, <<>>}
EditLineNums == {<<"-", "1">>, <<"0">>, <<"1">>, <<"2">>, <<"3">>, <<"4">>, <<"x">>}
EditLineTexts == {<<"b">>}
EditTailTexts == {<<>>, <<"b">>, <<"\n", "b">>}
EditInvocations ==
    {[Argv("write", << <<"-">> >>) EXCEPT !.stdin = b] : b \in EditSources}
    \cup {Argv(c, <<n, o, t>>) : c \in {"replace", "replace-all"}, n \in StoredNames,
                                 o \in EditOldTexts, t \in EditNewTexts}
    \cup {Argv(c, <<n, k, t>>) : c \in {"line-insert", "line-replace"}, n \in StoredNames,
                                 k \in EditLineNums, t \in EditLineTexts}
    \cup {Argv("line-delete", <<n, k>>) : n \in StoredNames, k \in EditLineNums}
    \cup {Argv(c, <<n, t>>) : c \in {"append", "prepend"}, n \in StoredNames, t \in EditTailTexts}

\* Invocations of llm for the stream decoder: response bodies of one and of
\* two data frames, the last line with and without its newline, delivered
\* in every split into at most MaxChunks reads; and one without credential.
RECURSIVE Splits(_, _)
Splits(s, k) ==
    IF k = 1 \/ Len(s) <= 1 THEN {<<s>>}
    ELSE {<<s>>} \cup UNION {{<<SubSeq(s, 1, i)>> \o rest :
                                  rest \in Splits(SubSeq(s, i + 1, Len(s)), k - 1)} :
                             i \in 1..(Len(s) - 1)}
RECURSIVE Concat(_)
Concat(seqs) == IF seqs = <<>> THEN <<>> ELSE Head(seqs) \o Concat(Tail(seqs))
FrameLine(fragment) == DataPrefix \o <<"{">> \o fragment \o <<"}">>
Wire(frames, terminated) ==
    LET body == JoinStr([i \in 1..Len(frames) |-> FrameLine(frames[i])], NewLine)
    IN  IF terminated THEN body \o NewLine ELSE body
FrameLists == {<< <<"a">> >>, << <<"a">>, <<"b">> >>}
LlmNets ==
    {NoNet}
    \cup UNION {{[key |-> TRUE, ok |-> TRUE, chunks |-> c, frames |-> ft[1],
                   wire |-> Wire(ft[1], ft[2])] : c \in Splits(Wire(ft[1], ft[2]), MaxChunks)} :
                 ft \in FrameLists \X BOOLEAN}
LlmInvocations ==
    {[Argv("llm", << <<"a">>, <<"a">>, <<"b">> >>) EXCEPT !.net = e] : e \in LlmNets}

\* ------------------------------------------------------------- actions
Running(p) == proc[p].pc \notin {"idle", "exited", "crashed"}
Set(p, r) == proc' = [proc EXCEPT ![p] = r]

\* throw new Error(msg) out of runCommand: control reaches the catch of main.
Throw(r, msg) == [r EXCEPT !.pc = "catch", !.err = msg, !.opResult = "err", !.opErr = msg]

\* write and edit print the hash on standard output, llm on standard error.
PrintStream(command) == IF command = "llm" THEN "stderr" ELSE "stdout"

\* (mutant) the command prints the hash and returns nothing.
Return_NoValue(r) ==
    [r EXCEPT !.pc = "log", !.printed = Some(r.hash), !.printedTo = PrintStream(r.command),
              !.outputName = None, !.opResult = "ok"]

\* writeCAS returns hash, the command prints it and returns it to main.
Return(r) ==
    [r EXCEPT !.pc = "log", !.printed = Some(r.hash), !.printedTo = PrintStream(r.command),
              !.outputName = Some(r.hash), !.opResult = "ok"]

\* The operating system starts the program with an argument vector (and,
\* for write, the bytes of its source: standard input or the file named).
StartWith(p, invocations) ==
    /\ ~Running(p)
    /\ started < MaxInvocations
    /\ \E i \in invocations :
         Set(p, [IdleProc EXCEPT !.pc = "main", !.argc = i.argc, !.command = i.command,
                                 !.rest = i.rest, !.stdin = i.stdin, !.net = i.net,
                                 !.inv = started + 1])
    /\ started' = started + 1
    /\ UNCHANGED <<dirs, files, audit, putDone>>
Start(p) == StartWith(p, Invocations)

\* main up to the try: the usage exit, or initAuditDb.
Main(p) ==
    /\ proc[p].pc = "main"
    /\ IF proc[p].argc < 2
       THEN /\ Set(p, [proc[p] EXCEPT !.pc = "exited", !.stderr = "usage", !.exitCode = 1])
            /\ UNCHANGED dirs
       ELSE /\ Set(p, [proc[p] EXCEPT !.pc = "run"])
            /\ dirs' = dirs \cup MkdirP(<<>>)
    /\ UNCHANGED <<files, audit, started, putDone>>

\* runCommand: the switch, the argument-count checks, and the synchronous
\* start of the command (write reads its source to the end).
RunCommand(p) ==
    LET r == [proc[p] EXCEPT !.snapDirs = dirs, !.snapFiles = files]
    IN  /\ proc[p].pc = "run"
        /\ Set(p, IF r.command \notin Commands THEN Throw(r, "Unknown command")
                  ELSE IF Len(r.rest) /= Arity(r.command) THEN Throw(r, "wrong arguments")
                  ELSE IF r.command = "write" THEN [r EXCEPT !.pc = "w_mkdir", !.data = r.stdin]
                  ELSE IF r.command = "llm" THEN [r EXCEPT !.pc = "llm"]
                  ELSE [r EXCEPT !.pc = "r_exists"])
        /\ UNCHANGED <<dirs, files, audit, started, putDone>>

\* readCAS: the existence check.
ReadExists(p) ==
    /\ proc[p].pc = "r_exists"
    /\ Set(p, IF existsSync(getFilePath(proc[p].rest[1]))
              THEN [proc[p] EXCEPT !.pc = "r_read"]
              ELSE Throw(proc[p], "not found in CAS"))
    /\ UNCHANGED <<dirs, files, audit, started, putDone>>

\* (mutant) edit ends the new text with a newline before it stores it.
EditResult_EndsLine(r, bytes) ==
    LET res == transformFn(r.command, r.rest, Utf8Decode(bytes))
    IN  IF res.ok
        THEN [r EXCEPT !.pc = "w_mkdir",
                       !.data = Utf8Encode(IF EndsWith(res.text, NewLine) THEN res.text
                                           ELSE res.text \o NewLine)]
        ELSE Throw(r, res.err)

\* edit between readCAS and writeCAS: decode, transform, encode.
EditResult(r, bytes) ==
    LET res == transformFn(r.command, r.rest, Utf8Decode(bytes))
    IN  IF res.ok THEN [r EXCEPT !.pc = "w_mkdir", !.data = Utf8Encode(res.text)]
        ELSE Throw(r, res.err)

\* (mutant) read passes the bytes through the text encoding.
AfterRead_AsText(r, bytes) ==
    IF r.command = "read"
    THEN [r EXCEPT !.pc = "log", !.out = Some(Utf8Encode(Utf8Decode(bytes))),
                   !.outputName = None, !.opResult = "ok"]
    ELSE EditResult(r, bytes)

\* What follows the readFileSync of readCAS: read writes the bytes to standard
\* output and returns null; an edit goes on to its transform.
AfterRead(r, bytes) ==
    IF r.command = "read"
    THEN [r EXCEPT !.pc = "log", !.out = Some(bytes), !.outputName = None, !.opResult = "ok"]
    ELSE EditResult(r, bytes)

\* (mutant) edit stores a re-encoded copy of its source before it transforms.
ReadFile_CopyFirst(p) ==
    LET path == getFilePath(proc[p].rest[1])
        next == IF path \in DOMAIN files THEN AfterRead(proc[p], files[path])
                ELSE Throw(proc[p], "EISDIR")
        copy == Utf8Encode(Utf8Decode(files[path]))
    IN  /\ proc[p].pc = "r_read"
        /\ Len(next.data) <= MaxLen
        /\ Set(p, next)
        /\ files' = IF path \in DOMAIN files /\ proc[p].command /= "read"
                    THEN (getFilePath(computeHash(copy)) :> copy) @@ files
                    ELSE files
        /\ UNCHANGED <<dirs, audit, started, putDone>>

\* readCAS: fs.readFileSync, which throws on a directory.
ReadFile(p) ==
    LET path == getFilePath(proc[p].rest[1])
        next == IF path \in DOMAIN files THEN AfterRead(proc[p], files[path])
                ELSE Throw(proc[p], "EISDIR")
    IN  /\ proc[p].pc = "r_read"
        /\ Len(next.data) <= MaxLen
        /\ Set(p, next)
        /\ UNCHANGED <<dirs, files, audit, started, putDone>>

\* llm up to the stream: the credential check, the request, the status check.
Llm(p) ==
    /\ proc[p].pc = "llm"
    /\ Set(p, IF ~proc[p].net.key THEN Throw(proc[p], "OPENROUTER_API_KEY not set")
              ELSE IF ~proc[p].net.ok THEN Throw(proc[p], "OpenRouter API error")
              ELSE [proc[p] EXCEPT !.pc = "llm_read", !.fullOutput = <<>>, !.buffer = <<>>])
    /\ UNCHANGED <<dirs, files, audit, started, putDone>>

\* (mutant) every read of the stream stores the text accumulated so far.
LlmRead_StoresPartial(p) ==
    LET r == proc[p]
    IN  /\ r.pc = "llm_read"
        /\ IF r.net.chunks = <<>>
           THEN /\ Set(p, [r EXCEPT !.pc = "w_mkdir", !.data = Utf8Encode(r.fullOutput)])
                /\ UNCHANGED files
           ELSE LET lines   == SplitStr(r.buffer \o Head(r.net.chunks), NewLine)
                    content == LinesContent(SubSeq(lines, 1, Len(lines) - 1))
                    partial == Utf8Encode(r.fullOutput \o content)
                IN  /\ Set(p, [r EXCEPT !.net.chunks = Tail(r.net.chunks),
                                        !.buffer = lines[Len(lines)],
                                        !.tee = r.tee \o content,
                                        !.fullOutput = r.fullOutput \o content])
                    /\ files' = (getFilePath(computeHash(partial)) :> partial) @@ files
        /\ UNCHANGED <<dirs, audit, started, putDone>>

\* One reader.read() of the stream loop; at the end of the stream, the final
\* newline to standard output and the buffer handed to writeCAS.
LlmRead(p) ==
    LET r == proc[p]
    IN  /\ r.pc = "llm_read"
        /\ IF r.net.chunks = <<>>
           THEN Set(p, [r EXCEPT !.pc = "w_mkdir",
                                 !.tee = IF r.fullOutput /= <<>> /\ ~EndsWith(r.fullOutput, NewLine)
                                         THEN r.tee \o NewLine ELSE r.tee,
                                 !.data = Utf8Encode(r.fullOutput)])
           ELSE LET lines   == SplitStr(r.buffer \o Head(r.net.chunks), NewLine)
                    content == LinesContent(SubSeq(lines, 1, Len(lines) - 1))
                IN  Set(p, [r EXCEPT !.net.chunks = Tail(r.net.chunks),
                                     !.buffer = lines[Len(lines)],
                                     !.tee = r.tee \o content,
                                     !.fullOutput = r.fullOutput \o content])
        /\ UNCHANGED <<dirs, files, audit, started, putDone>>

\* writeCAS: the digest and fs.mkdirSync(dir, {recursive: true}).
Mkdir(p) ==
    LET hash == computeHash(proc[p].data)
    IN  /\ proc[p].pc = "w_mkdir"
        /\ Set(p, [proc[p] EXCEPT !.pc = "w_exists", !.hash = hash])
        /\ dirs' = dirs \cup MkdirP(dirname(getFilePath(hash)))
        /\ UNCHANGED <<files, audit, started, putDone>>

\* (mutant) writeCAS without its existence check: it always writes.
WExists_NoCheck(p) ==
    /\ proc[p].pc = "w_exists"
    /\ Set(p, [proc[p] EXCEPT !.pc = "w_open"])
    /\ UNCHANGED <<dirs, files, audit, started, putDone>>

\* writeCAS: the existence check; the write is skipped when the path exists.
WExists(p) ==
    /\ proc[p].pc = "w_exists"
    /\ IF existsSync(getFilePath(proc[p].hash))
       THEN /\ Set(p, Return(proc[p]))
            /\ putDone' = putDone \cup {[data |-> proc[p].data, hash |-> proc[p].hash]}
       ELSE /\ Set(p, [proc[p] EXCEPT !.pc = "w_open"])
            /\ UNCHANGED putDone
    /\ UNCHANGED <<dirs, files, audit, started>>

\* (mutant) the success row is appended as the file is opened, before the
\* bytes are written.
WOpen_LogFirst(p) ==
    /\ proc[p].pc = "w_open"
    /\ files' = (getFilePath(proc[p].hash) :> <<>>) @@ files
    /\ audit' = Append(audit, [id |-> Len(audit) + 1, command |-> proc[p].command,
                               success |-> TRUE, error_message |-> "",
                               output_name |-> Some(proc[p].hash), inv |-> proc[p].inv,
                               opResult |-> proc[p].opResult, resolved |-> FALSE])
    /\ Set(p, [proc[p] EXCEPT !.pc = "w_data", !.wrote = TRUE])
    /\ UNCHANGED <<dirs, started, putDone>>

\* fs.writeFileSync, first half: open with flag 'w' creates the file, or
\* truncates the one that is there.
WOpen(p) ==
    /\ proc[p].pc = "w_open"
    /\ files' = (getFilePath(proc[p].hash) :> <<>>) @@ files
    /\ Set(p, [proc[p] EXCEPT !.pc = "w_data", !.wrote = TRUE])
    /\ UNCHANGED <<dirs, audit, started, putDone>>

\* fs.writeFileSync, second half: the bytes are written and the file closed;
\* writeCAS returns.
WData(p) ==
    /\ proc[p].pc = "w_data"
    /\ files' = (getFilePath(proc[p].hash) :> proc[p].data) @@ files
    /\ Set(p, Return(proc[p]))
    /\ putDone' = putDone \cup {[data |-> proc[p].data, hash |-> proc[p].hash]}
    /\ UNCHANGED <<dirs, audit, started>>

\* A row of audit_log.  id is the AUTOINCREMENT key.  The last three fields
\* are history: the invocation that appended the row, the outcome of its
\* runCommand, and whether output_name named, at that moment, a file of the
\* store holding bytes of that digest.
Resolves(name) ==
    /\ name /= None
    /\ getFilePath(name[1]) \in DOMAIN files
    /\ computeHash(files[getFilePath(name[1])]) = name[1]
Row(r, success, errorMessage, outputName) ==
    [id |-> Len(audit) + 1, command |-> r.command, success |-> success,
     error_message |-> errorMessage, output_name |-> outputName,
     inv |-> r.inv, opResult |-> r.opResult, resolved |-> Resolves(outputName)]

\* main, the try branch: logAudit(command, rest, true, null, outputName).
LogAudit(p) ==
    /\ proc[p].pc = "log"
    /\ audit' = Append(audit, Row(proc[p], TRUE, "", proc[p].outputName))
    /\ Set(p, [proc[p] EXCEPT !.pc = "done", !.nrows = @ + 1])
    /\ UNCHANGED <<dirs, files, started, putDone>>

\* The insert of the try branch throws: control reaches the catch.
LogAuditThrows(p) ==
    /\ proc[p].pc = "log"
    /\ Set(p, [proc[p] EXCEPT !.pc = "catch", !.err = "audit insert failed"])
    /\ UNCHANGED <<dirs, files, audit, started, putDone>>

\* main, the catch branch: logAudit(command, rest, false, err.message, null).
CatchLog(p) ==
    /\ proc[p].pc = "catch"
    /\ audit' = Append(audit, Row(proc[p], FALSE, proc[p].err, None))
    /\ Set(p, [proc[p] EXCEPT !.pc = "caught", !.nrows = @ + 1])
    /\ UNCHANGED <<dirs, files, started, putDone>>

\* The insert of the catch branch throws: main's promise rejects, nothing
\* handles it, and the runtime prints that error and exits with code 1.
CatchLogThrows(p) ==
    /\ proc[p].pc = "catch"
    /\ Set(p, [proc[p] EXCEPT !.pc = "exited", !.stderr = "audit insert failed", !.exitCode = 1])
    /\ UNCHANGED <<dirs, files, audit, started, putDone>>

\* logAudit against other connections.  db is opened without a timeout
\* option, so the busy timeout is 0: while another connection is inside its
\* insert transaction, stmt.run throws at once (SQLITE_BUSY).
Busy == "database is locked"
DbLocked == \E q \in Proc : proc[q].pc \in {"log_commit", "catch_commit"}

\* stmt.run, first half: the write lock is taken, or the insert throws.  A
\* throw in the try branch reaches the catch; a throw in the catch branch
\* rejects main's promise, and the runtime prints it and exits with code 1.
InsertBegin(p) ==
    LET r == proc[p]
    IN  /\ r.pc \in {"log", "catch"}
        /\ Set(p, IF ~DbLocked
                  THEN [r EXCEPT !.pc = IF r.pc = "log" THEN "log_commit" ELSE "catch_commit"]
                  ELSE IF r.pc = "log" THEN [r EXCEPT !.pc = "catch", !.err = Busy]
                  ELSE [r EXCEPT !.pc = "exited", !.stderr = Busy, !.exitCode = 1])
        /\ UNCHANGED <<dirs, files, audit, started, putDone>>

\* stmt.run, second half: the row is committed and the lock released.
InsertCommit(p) ==
    LET r == proc[p]
    IN  /\ r.pc \in {"log_commit", "catch_commit"}
        /\ audit' = Append(audit, IF r.pc = "log_commit" THEN Row(r, TRUE, "", r.outputName)
                                  ELSE Row(r, FALSE, r.err, None))
        /\ Set(p, [r EXCEPT !.pc = IF r.pc = "log_commit" THEN "done" ELSE "caught",
                            !.nrows = @ + 1])
        /\ UNCHANGED <<dirs, files, started, putDone>>

\* The process ends: main returned (exit code 0), or the catch branch prints
\* the error and calls process.exit(1).
Exit(p) ==
    /\ proc[p].pc \in {"done", "caught"}
    /\ Set(p, IF proc[p].pc = "done" THEN [proc[p] EXCEPT !.pc = "exited", !.exitCode = 0]
              ELSE [proc[p] EXCEPT !.pc = "exited", !.stderr = proc[p].err, !.exitCode = 1])
    /\ UNCHANGED <<dirs, files, audit, started, putDone>>

\* The process is terminated from outside at any point of its run; nothing
\* of its memory is left.
Crash(p) ==
    /\ Running(p)
    /\ Set(p, [IdleProc EXCEPT !.pc = "crashed", !.exitCode = 137, !.inv = proc[p].inv])
    /\ UNCHANGED <<dirs, files, audit, started, putDone>>

\* ------------------------------------------------------ specifications
Step(p) ==
    \/ Main(p) \/ RunCommand(p) \/ ReadExists(p) \/ ReadFile(p) \/ Llm(p) \/ LlmRead(p)
    \/ Mkdir(p) \/ WExists(p) \/ WOpen(p) \/ WData(p) \/ LogAudit(p) \/ CatchLog(p) \/ Exit(p)

\* No invocation is running: the next one starts after the last one ended
\* (sequential invocations all run in the first process slot).
Quiet == \A q \in Proc : ~Running(q)
SeqStart(p) == Quiet /\ p = 1 /\ Start(p)

\* Invocations one after the other, each run to its exit, no faults.
NextSeq == \E p \in Proc : SeqStart(p) \/ Step(p)
SeqSpec == Init /\ [][NextSeq]_vars

\* Invocations one after the other, each of which may be terminated at any step.
NextCrash == \E p \in Proc : SeqStart(p) \/ Step(p) \/ Crash(p)
CrashSpec == Init /\ [][NextCrash]_vars

\* Independent processes interleaved step by step, no faults.
NextConc == \E p \in Proc : Start(p) \/ Step(p)
ConcSpec == Init /\ [][NextConc]_vars

\* Independent processes interleaved step by step, no faults, each insert
\* into audit_log taken as the two steps other connections can observe.
StepBeforeLog(p) ==
    \/ Main(p) \/ RunCommand(p) \/ ReadExists(p) \/ ReadFile(p) \/ Llm(p) \/ LlmRead(p)
    \/ Mkdir(p) \/ WExists(p) \/ WOpen(p) \/ WData(p) \/ Exit(p)
NextAudit == \E p \in Proc : Start(p) \/ StepBeforeLog(p) \/ InsertBegin(p) \/ InsertCommit(p)
AuditSpec == Init /\ [][NextAudit]_vars

\* write and the edit commands one after the other, no faults, with the
\* arguments of EditInvocations.
EditStart(p) == Quiet /\ p = 1 /\ StartWith(p, EditInvocations)
EditStep(p) ==
    \/ Main(p) \/ RunCommand(p) \/ ReadExists(p) \/ ReadFile(p)
    \/ Mkdir(p) \/ WExists(p) \/ WOpen(p) \/ WData(p) \/ LogAudit(p) \/ CatchLog(p) \/ Exit(p)
NextEdit == \E p \in Proc : EditStart(p) \/ EditStep(p)
EditSpec == Init /\ [][NextEdit]_vars

\* llm invocations one after the other, no faults, with the streams of
\* LlmInvocations.
LlmStart(p) == Quiet /\ p = 1 /\ StartWith(p, LlmInvocations)
LlmStep(p) ==
    \/ Main(p) \/ RunCommand(p) \/ Llm(p) \/ LlmRead(p)
    \/ Mkdir(p) \/ WExists(p) \/ WOpen(p) \/ WData(p) \/ LogAudit(p) \/ CatchLog(p) \/ Exit(p)
NextLlm == \E p \in Proc : LlmStart(p) \/ LlmStep(p)
LlmSpec == Init /\ [][NextLlm]_vars

\* Everything: interleaved processes, terminations, failing audit inserts.
Next == \E p \in Proc : Start(p) \/ Step(p) \/ Crash(p) \/ LogAuditThrows(p) \/ CatchLogThrows(p)
Spec == Init /\ [][Next]_vars

\* ------------------------------------------------------------- claims
InWriteCAS(p) == proc[p].pc \in {"w_mkdir", "w_exists", "w_open", "w_data"}

\* A blob exists at path: the file is there and no writeFileSync that created
\* it is still between its open and its write.
BlobAt(path) ==
    /\ path \in DOMAIN files
    /\ \A p \in Proc : ~(proc[p].pc = "w_data" /\ getFilePath(proc[p].hash) = path)

\* C1: blob immutability.  Once a blob exists at a location, no step of any
\* write, read, edit or llm invocation, successful or failed, removes it or
\* changes its bytes: get of its digest keeps returning the same bytes.
C1_BlobImmutable ==
    [][\A path \in DOMAIN files :
          BlobAt(path) => path \in DOMAIN files' /\ files'[path] = files[path]]_vars

\* C1 witness: an append to the blob "a" has succeeded and stored its result
\* under another digest, and the source blob still reads "a".
C1_Witness ==
    \E p \in Proc :
      /\ proc[p].command = "append" /\ proc[p].pc = "exited" /\ proc[p].exitCode = 0
      /\ proc[p].rest[1] = computeHash(<<97>>)
      /\ proc[p].outputName = Some(computeHash(<<97, 98>>))
      /\ getFilePath(computeHash(<<97, 98>>)) \in DOMAIN files
      /\ files[getFilePath(computeHash(<<97>>))] = <<97>>

\* C2: idempotent put.  When put(b) has already returned, every step of a
\* later put(b) leaves the directories and the files as they are, takes no
\* write path, and returns the digest the first call returned (no new
\* [data, hash] pair): the store after the second call is the store after
\* the first, with one file for the digest.
C2_IdempotentPut ==
    [][\A p \in Proc :
          (/\ InWriteCAS(p)
           /\ proc'[p] /= proc[p]
           /\ \E d \in putDone : d.data = proc[p].data)
          => /\ files' = files
             /\ dirs' = dirs
             /\ putDone' = putDone
             /\ proc'[p].pc \notin {"w_open", "w_data"}]_vars

\* C2 witness: a second write of the same bytes has returned without writing,
\* and the log holds the first write's row with the same digest.
C2_Witness ==
    \E p \in Proc :
      /\ proc[p].command = "write" /\ proc[p].pc = "log" /\ ~proc[p].wrote
      /\ \E i \in 1..Len(audit) :
           audit[i].command = "write" /\ audit[i].output_name = proc[p].outputName
      /\ files[getFilePath(proc[p].hash)] = proc[p].data

\* C3: round trip.  A read of a digest that put returned for the bytes b
\* succeeds and writes exactly b to standard output, the empty buffer included.
ReadFinished(p) ==
    proc[p].command = "read" /\ Len(proc[p].rest) = 1 /\ proc[p].opResult /= "none"
C3_RoundTrip ==
    \A p \in Proc : \A d \in putDone :
      (ReadFinished(p) /\ proc[p].rest[1] = d.hash)
      => (proc[p].opResult = "ok" /\ proc[p].out = Some(d.data))

\* C3 witness: the empty buffer was put and a read of its digest has written
\* the empty buffer.
C3_Witness ==
    \E p \in Proc :
      /\ ReadFinished(p)
      /\ proc[p].rest[1] = computeHash(<<>>)
      /\ [data |-> <<>>, hash |-> computeHash(<<>>)] \in putDone
      /\ proc[p].out = Some(<<>>)

\* C4: one audit row per invocation.  Every invocation that has run to its
\* exit has appended exactly one row, whatever its command and outcome,
\* missing arguments included.
C4_OneRowPerInvocation ==
    \A p \in Proc : proc[p].pc = "exited" => proc[p].nrows = 1

MutatingCommands == EditCommands \cup {"write", "llm"}

RowsOf(k) == {i \in 1..Len(audit) : audit[i].inv = k}

\* The state part of C6: what the rows of the log say.
C6_RowsTruthful ==
    /\ \A i \in 1..Len(audit) :
         /\ audit[i].opResult = (IF audit[i].success THEN "ok" ELSE "err")
         /\ audit[i].output_name /= None
            => getFilePath(audit[i].output_name[1]) \in DOMAIN files
    /\ \A k \in 1..started : Cardinality(RowsOf(k)) <= 1
    /\ \A p \in Proc :
         (Running(p) /\ proc[p].opResult = "none") => RowsOf(proc[p].inv) = {}
\* The step part of C6: who appends a row, and when.
C6_AppendBeforeExit ==
    audit' /= audit
    => /\ Len(audit') = Len(audit) + 1
       /\ SubSeq(audit', 1, Len(audit)) = audit
       /\ \E p \in Proc :
            /\ Running(p) /\ proc[p].opResult /= "none"
            /\ audit'[Len(audit')].inv = proc[p].inv
            /\ proc'[p].pc \in {"done", "caught"}
C7_FailedTransformNoWrite ==
    \A p \in Proc :
      (proc[p].command \in EditCommands /\ proc[p].opErr = OutOfRange)
      => (files = proc[p].snapFiles /\ dirs = proc[p].snapDirs)

\* C7 witness: a line-delete with an out-of-range line number has thrown on a
\* blob that exists, and the invocation has exited.
C7_Witness ==
    \E p \in Proc :
      /\ proc[p].command = "line-delete" /\ proc[p].opErr = OutOfRange
      /\ proc[p].pc = "exited" /\ proc[p].exitCode = 1
      /\ getFilePath(proc[p].rest[1]) \in DOMAIN files

\* C8: a failing audit insert does not change what the caller is told.  An
\* invocation whose operation succeeded exits with code 0 and leaves no
\* failure row; one whose operation failed prints the error of the operation
\* and exits with a code other than 0.
C8_AuditFailureNotMasking ==
    \A p \in Proc :
      (proc[p].pc = "exited" /\ proc[p].argc >= 2)
      => /\ proc[p].opResult = "ok"
            => /\ proc[p].exitCode = 0
               /\ \A i \in RowsOf(proc[p].inv) : audit[i].success
         /\ proc[p].opResult = "err"
            => (proc[p].exitCode /= 0 /\ proc[p].stderr = proc[p].opErr)

\* C9: concurrent store access.  With the filesystem steps of several
\* processes interleaved, every put succeeds (also when two of them create
\* the same shard directory), and every get that succeeds for a digest
\* returns bytes of that digest, never an empty or partly written blob.
C9_ConcurrentGet ==
    \A p \in Proc :
      /\ (proc[p].command = "write" /\ Len(proc[p].rest) = 1) => proc[p].opResult /= "err"
      /\ (proc[p].command = "read" /\ proc[p].out /= None)
         => computeHash(proc[p].out[1]) = proc[p].rest[1]

\* C10: atomic put.  Whenever no put is under way, also after a process was
\* terminated at any step of a put, every location of the store that holds a
\* file holds bytes whose digest names the location.
C10_StoreIntegrity ==
    Quiet => \A path \in DOMAIN files : computeHash(files[path]) = path[1] \o path[2]

\* C11: the audit log is append-only and tolerates concurrent appenders: a
\* row once appended stays where it is, unchanged; ids are distinct and
\* increase in append order; and when two invocations append at the same
\* time both rows are recorded and neither append fails.
C11_RowsKept == \A i \in 1..Len(audit) : Len(audit') >= i /\ audit'[i] = audit[i]
C11_IdsIncreasing == \A i, j \in 1..Len(audit) : i < j => audit[i].id < audit[j].id
C11_NoAppendFails ==
    \A p \in Proc :
        /\ proc[p].err /= Busy /\ proc[p].stderr /= Busy
        /\ proc[p].argc >= 2 /\ proc[p].pc = "exited" => proc[p].nrows = 1
C11_ConcurrentAppenders ==
    [](C11_IdsIncreasing /\ C11_NoAppendFails) /\ [][C11_RowsKept]_vars

\* C12: for every name argument with no blob at the derived location (names
\* of two characters or fewer included), read and every edit command fail
\* with the not-found error, exit with a non-zero code, and leave the store
\* unchanged.
C12_AbsentNameNotFound ==
    \A p \in Proc :
        LET r == proc[p]
        IN  /\ r.command \in {"read"} \cup EditCommands
            /\ Len(r.rest) = Arity(r.command)
            /\ r.opResult /= "none"
            /\ getFilePath(r.rest[1]) \notin DOMAIN r.snapFiles
            => /\ r.opErr = "not found in CAS"
               /\ files = r.snapFiles /\ dirs = r.snapDirs
               /\ r.pc = "exited" => r.exitCode /= 0

\* The source text of the edit r runs, and the number of its lines.
EditSource(r) == Utf8Decode(r.snapFiles[getFilePath(r.rest[1])])
LineCount(text) == Len(SplitStr(text, NewLine))
LineCommands == {"line-insert", "line-delete", "line-replace"}
\* The last line number the command accepts.
LastLine(r) ==
    IF r.command = "line-insert" THEN LineCount(EditSource(r)) + 1 ELSE LineCount(EditSource(r))

\* C13: line-insert(n) succeeds exactly when 1 <= n <= lineCount + 1,
\* line-delete(n) and line-replace(n) exactly when 1 <= n <= lineCount; for
\* every other integer n the command fails with the out-of-range error and
\* writes no blob.
C13_LineRange ==
    \A p \in Proc :
        LET r == proc[p]
            n == parseInt(r.rest[2])
        IN  r.command \in LineCommands /\ r.opResult /= "none" /\ ~n.nan
            => IF 1 <= n.val /\ n.val <= LastLine(r)
               THEN r.opResult = "ok"
               ELSE /\ r.opResult = "err" /\ r.opErr = OutOfRange
                    /\ ~r.wrote /\ files = r.snapFiles
\* line-replace one past the last line of a text of two lines has failed, and
\* the invocation has ended.
C13_Witness ==
    \E p \in Proc :
        /\ proc[p].command = "line-replace" /\ proc[p].pc = "exited"
        /\ LineCount(EditSource(proc[p])) = 2
        /\ parseInt(proc[p].rest[2]) = Num(3)
        /\ proc[p].opErr = OutOfRange

\* The digest append(d, newline followed by x) returns for the source of r.
AppendedLineDigest(r) ==
    computeHash(Utf8Encode(transformFn("append", <<r.rest[1], NewLine \o r.rest[3]>>,
                                       EditSource(r)).text))

\* C14: line-insert(d, lineCount + 1, x) returns the digest that
\* append(d, newline followed by x) returns; line-insert at position 0 or
\* lineCount + 2 fails with the out-of-range error.
C14_InsertAtEndIsAppend ==
    \A p \in Proc :
        LET r  == proc[p]
            n  == parseInt(r.rest[2])
            lc == LineCount(EditSource(r))
        IN  r.command = "line-insert" /\ r.opResult /= "none" /\ ~n.nan
            => /\ n.val = lc + 1 =>
                    r.opResult = "ok" /\ r.outputName = Some(AppendedLineDigest(r))
               /\ n.val \in {0, lc + 2} => r.opResult = "err" /\ r.opErr = OutOfRange
\* line-insert after the only line of a text that is not empty has returned.
C14_Witness ==
    \E p \in Proc :
        /\ proc[p].command = "line-insert" /\ proc[p].opResult = "ok"
        /\ EditSource(proc[p]) /= <<>> /\ LineCount(EditSource(proc[p])) = 1
        /\ parseInt(proc[p].rest[2]) = Num(2)
        /\ proc[p].outputName /= None

\* text with its first, and with every, occurrence of old (not empty) replaced
\* by the characters of new as they stand.
LiteralFirst(text, old, new) ==
    LET i == IndexOf(text, old)
    IN  IF i = 0 THEN text
        ELSE SubSeq(text, 1, i - 1) \o new \o SubSeq(text, i + Len(old), Len(text))
RECURSIVE LiteralAll(_, _, _)
LiteralAll(text, old, new) ==
    LET i == IndexOf(text, old)
    IN  IF i = 0 THEN text
        ELSE SubSeq(text, 1, i - 1) \o new
             \o LiteralAll(SubSeq(text, i + Len(old), Len(text)), old, new)

\* C15: replace stores the text with only its first occurrence of old
\* substituted by the literal text new (the text unchanged when old does not
\* occur), and replace-all stores it with every occurrence substituted.
C15_LiteralReplace ==
    \A p \in Proc :
        LET r == proc[p]
            t == EditSource(r)
        IN  r.command \in {"replace", "replace-all"} /\ r.opResult /= "none"
            => /\ r.opResult = "ok"
               /\ getFilePath(r.hash) \in DOMAIN files
               /\ files[getFilePath(r.hash)] =
                    Utf8Encode(IF r.command = "replace" THEN LiteralFirst(t, r.rest[2], r.rest[3])
                               ELSE LiteralAll(t, r.rest[2], r.rest[3]))

\* C16: llm writes the store at most once and only after the stream has
\* completed; a missing credential or an upstream error status leaves the
\* store unchanged and fails the invocation; a process terminated mid-stream
\* leaves no output blob and no audit record.
C16_UntouchedBeforeEnd ==
    \A p \in Proc :
        LET r == proc[p]
        IN  /\ r.command = "llm" /\ r.pc \in {"llm", "llm_read"}
               => files = r.snapFiles /\ dirs = r.snapDirs /\ RowsOf(r.inv) = {}
            /\ r.command = "llm" /\ r.opResult /= "none" /\ (~r.net.key \/ ~r.net.ok)
               => /\ r.opResult = "err"
                  /\ files = r.snapFiles /\ dirs = r.snapDirs
                  /\ r.pc = "exited" => r.exitCode /= 0
            /\ r.command = "llm" /\ Len(r.rest) = 3 /\ r.opResult /= "none"
               => /\ \A path \in DOMAIN r.snapFiles :
                        path \in DOMAIN files /\ files[path] = r.snapFiles[path]
                  /\ Cardinality(DOMAIN files \ DOMAIN r.snapFiles) <= 1
C16_WriteAfterStream ==
    \A p \in Proc :
        proc[p].command = "llm" /\ files' /= files
        => proc[p].net.chunks = <<>> /\ proc[p].pc \in {"w_open", "w_data"}
C16_TerminatedMidStream ==
    \A p \in Proc :
        proc[p].command = "llm" /\ proc[p].pc \in {"llm", "llm_read"} /\ proc'[p].pc = "crashed"
        => /\ files' = proc[p].snapFiles /\ dirs' = proc[p].snapDirs
           /\ \A i \in 1..Len(audit') : audit'[i].inv /= proc[p].inv
C16_LlmWritesAfterStream ==
    [](C16_UntouchedBeforeEnd) /\ [][C16_WriteAfterStream /\ C16_TerminatedMidStream]_vars
\* Mid-stream: a fragment has been teed and the stream has more to deliver.
C16_Witness ==
    \E p \in Proc :
        /\ proc[p].command = "llm" /\ proc[p].pc = "llm_read"
        /\ proc[p].fullOutput /= <<>> /\ proc[p].net.chunks /= <<>>

\* C17: when the llm stream ends with accumulated text that does not end in
\* a newline, the blob persisted is that text with one newline appended, and
\* the digest returned is the digest of the text plus newline.
C17_TrailingNewlinePersisted ==
    \A p \in Proc :
        LET r == proc[p]
        IN  /\ r.command = "llm" /\ r.opResult = "ok"
            /\ r.fullOutput /= <<>> /\ ~EndsWith(r.fullOutput, NewLine)
            => /\ r.data = Utf8Encode(r.fullOutput \o NewLine)
               /\ r.outputName = Some(computeHash(Utf8Encode(r.fullOutput \o NewLine)))

\* llm has returned, and what it persisted and teed is the concatenation of
\* the fragments of all frames (the newline of lines 246-248 is no fragment).
LlmDone(r) == r.command = "llm" /\ r.net.key /\ r.net.ok /\ r.opResult = "ok"
AllFragments(r) ==
    /\ r.data = Utf8Encode(Concat(r.net.frames))
    /\ r.tee \in {Concat(r.net.frames), Concat(r.net.frames) \o NewLine}

\* C18: for every sequence of data frames and every split of the
\* stream into network reads, a last frame without a newline before the end
\* of the stream included, the persisted text is the concatenation of the
\* fragments of all frames and each fragment is written to standard output
\* exactly once.
C18_AnySplit == \A p \in Proc : LlmDone(proc[p]) => AllFragments(proc[p])

\* The same for the streams whose last line ends with a newline: this much of
\* C18 holds.
C18_TerminatedStreams ==
    \A p \in Proc :
        LlmDone(proc[p]) /\ EndsWith(proc[p].net.wire, NewLine) => AllFragments(proc[p])

\* The edit r has returned, its source round-trips through the text encoding,
\* and its transform returned the source text.
NoOpEdit(r) ==
    /\ r.command \in EditCommands /\ r.opResult = "ok"
    /\ Utf8Encode(EditSource(r)) = r.snapFiles[getFilePath(r.rest[1])]
    /\ transformFn(r.command, r.rest, EditSource(r)).text = EditSource(r)

\* C19: an edit whose transform returns the source text returns the source
\* digest d itself, writes no blob, leaves the store unchanged, and is
\* recorded as one success row whose output_name is d.
C19_NoOpEdit ==
    \A p \in Proc :
        LET r == proc[p]
        IN  NoOpEdit(r)
            => /\ r.outputName = Some(r.rest[1]) /\ r.printed = Some(r.rest[1])
               /\ ~r.wrote /\ files = r.snapFiles /\ dirs = r.snapDirs
               /\ r.pc \in {"done", "exited"}
                  => /\ Cardinality(RowsOf(r.inv)) = 1
                     /\ \A i \in RowsOf(r.inv) :
                          audit[i].success /\ audit[i].output_name = Some(r.rest[1])
\* replace of a text that does not occur has run to its exit.
C19_Witness ==
    \E p \in Proc :
        /\ NoOpEdit(proc[p]) /\ proc[p].command = "replace" /\ proc[p].pc = "exited"
        /\ IndexOf(EditSource(proc[p]), proc[p].rest[2]) = 0
        /\ EditSource(proc[p]) /= <<>>

\* C20: a line-insert, line-delete or line-replace invocation whose line
\* number does not parse to an integer is rejected as a failure: no blob is
\* written, the store is unchanged, and the audit row has success = false.
C20_BadLineNumberRejected ==
    \A p \in Proc :
        LET r == proc[p]
        IN  /\ r.command \in LineCommands /\ Len(r.rest) = Arity(r.command)
            /\ r.opResult /= "none"
            /\ parseInt(r.rest[2]).nan
            => /\ r.opResult = "err"
               /\ ~r.wrote /\ files = r.snapFiles /\ dirs = r.snapDirs
               /\ \A i \in RowsOf(r.inv) : ~audit[i].success

====
